---------------------------- MODULE Spec2Model ----------------------------
(***************************************************************************)
(* Model of app.py, the Streamlit EXIF geotagger: the coordinate parser,   *)
(* the GPS IFD encoder/decoder, process_file and the form and batch        *)
(* handlers of the page script.                                            *)
(*                                                                         *)
(* Text is a sequence of characters, each a one-element string; the degree *)
(* sign U+00B0 is written "deg".  Python floats are fixed-point numbers    *)
(* [sg, q, r] of value sg * (q + r/360) * 1e-7: the resolution 1/3.6e9     *)
(* holds n/60, n/3600 and decimals of up to 8 places exactly.  The         *)
(* rounding error of a float product is a parameter e \in FloatErr.        *)
(***************************************************************************)
EXTENDS Integers, Sequences, FiniteSets, TLC

(***************************************************************************)
(* Fixed-point floats                                                      *)
(***************************************************************************)
E7 == 10000000
FxSub == 6 * 60
FloatErr == {-1, 0}

Abs(x) == IF x < 0 THEN -x ELSE x
Fx(sg, q, r) == [sg |-> sg, q |-> q, r |-> r]
FxInt(n) == Fx(IF n < 0 THEN -1 ELSE 1, Abs(n) * E7, 0)
FxOfE7(k) == Fx(IF k < 0 THEN -1 ELSE 1, Abs(k), 0)
FxIsZero(x) == x.q = 0 /\ x.r = 0
FxNeg(x) == Fx(-x.sg, x.q, x.r)
\* x + y for x, y >= 0
FxAdd(x, y) == Fx(1, x.q + y.q + ((x.r + y.r) \div FxSub), (x.r + y.r) % FxSub)
\* x / k for x >= 0 and an integer k in 1..3600, truncated to the resolution
FxDivInt(x, k) == Fx(1, x.q \div k, (((x.q % k) * FxSub) + x.r) \div k)
\* x <= n and x >= -n for an integer n >= 0
FxAbsLeqInt(x, n) == FxIsZero(x) \/ x.q < n * E7 \/ (x.q = n * E7 /\ x.r = 0)
\* x >= 0 (Python: -0.0 >= 0 is True)
FxNonNeg(x) == x.sg = 1 \/ FxIsZero(x)
\* round(x, 7) in units of 1e-7; e decides the tie the binary value breaks
round7(x, e) == x.sg * (x.q + (IF 2 * x.r + e >= FxSub THEN 1 ELSE 0))

\* n / den, n >= 0, den > 0, by long division to 7 decimal places and the rest
RECURSIVE DivDigits(_, _, _, _)
DivDigits(rem, den, k, acc) ==
    IF k = 0 THEN <<acc, rem>>
    ELSE DivDigits((rem * 10) % den, den, k - 1, acc * 10 + ((rem * 10) \div den))
FxRatio(n, den) ==
    LET fr == DivDigits(n % den, den, 7, 0)
    IN  Fx(1, (n \div den) * E7 + fr[1], (fr[2] * FxSub) \div den)

(***************************************************************************)
(* Characters and number scanning (the regular expressions' pieces)        *)
(***************************************************************************)
Digit == {"0", "1", "2", "3", "4", "5", "6", "7", "8", "9"}
DigitVal == ("0" :> 0) @@ ("1" :> 1) @@ ("2" :> 2) @@ ("3" :> 3) @@ ("4" :> 4) @@
            ("5" :> 5) @@ ("6" :> 6) @@ ("7" :> 7) @@ ("8" :> 8) @@ ("9" :> 9)
At(s, i) == IF i \in 1..Len(s) THEN s[i] ELSE ""
SubText(s, i, j) == IF j < i THEN <<>> ELSE [k \in 1..(j - i + 1) |-> s[i + k - 1]]

\* \d* from i: the index after the last digit
RECURSIVE ScanDigits(_, _)
ScanDigits(s, i) == IF At(s, i) \in Digit THEN ScanDigits(s, i + 1) ELSE i
\* \s* from i
RECURSIVE SkipSpaces(_, _)
SkipSpaces(s, i) == IF At(s, i) = " " THEN SkipSpaces(s, i + 1) ELSE i

\* \d+(?:\.\d+)? at i: the index after the match, 0 when there is none
ScanUnsigned(s, i) ==
    LET j == ScanDigits(s, i)
    IN  IF j = i THEN 0
        ELSE IF At(s, j) = "." /\ ScanDigits(s, j + 1) > j + 1
             THEN ScanDigits(s, j + 1) ELSE j
\* [-+]?\d+(?:\.\d+)? at i
ScanNumber(s, i) ==
    IF At(s, i) \in {"-", "+"} THEN ScanUnsigned(s, i + 1) ELSE ScanUnsigned(s, i)

RECURSIVE IntValue(_, _, _, _)
IntValue(s, i, j, acc) ==
    IF i >= j THEN acc ELSE IntValue(s, i + 1, j, acc * 10 + DigitVal[s[i]])
\* the fraction digits s[i..j-1] as (units of 1e-7, 360ths of one): 8 places kept
RECURSIVE FracValue(_, _, _, _, _)
FracValue(s, i, j, place, acc) ==
    IF i >= j \/ place > 8 THEN acc
    ELSE FracValue(s, i + 1, j, place + 1,
            IF place = 8 THEN <<acc[1], 36 * DigitVal[s[i]]>>
            ELSE <<acc[1] + DigitVal[s[i]] * (10 ^ (7 - place)), 0>>)
\* float(text[i..j-1]) of a matched number
float(s, i, j) ==
    LET neg == At(s, i) = "-"
        b == IF At(s, i) \in {"-", "+"} THEN i + 1 ELSE i
        dot == ScanDigits(s, b)
        fr == IF dot < j THEN FracValue(s, dot + 1, j, 1, <<0, 0>>) ELSE <<0, 0>>
    IN  Fx(IF neg THEN -1 ELSE 1, IntValue(s, b, dot, 0) * E7 + fr[1], fr[2])

NoMatch == [ok |-> FALSE]
Pair(a, b) == [ok |-> TRUE, lat |-> a, lon |-> b]
\* a match's two groups, as the places [i1, e1) and [i2, e2) of the text
Groups(i1, e1, i2, e2) == [ok |-> TRUE, i1 |-> i1, e1 |-> e1, i2 |-> i2, e2 |-> e2]
\* float(m.group(1)), float(m.group(2))
FloatPair(s, m) ==
    IF m.ok THEN Pair(float(s, m.i1, m.e1), float(s, m.i2, m.e2)) ELSE NoMatch
Min(S) == CHOOSE x \in S : \A y \in S : x <= y
\* re.search: the match at the leftmost position
\* m[i] is the match of the pattern at place i, if any
Search(m) ==
    LET hits == {i \in DOMAIN m : m[i].ok}
    IN  IF hits = {} THEN NoMatch ELSE m[Min(hits)]

(***************************************************************************)
(* Coordinate parsers                                                      *)
(***************************************************************************)
\* ([-+]?\d+(?:\.\d+)?)\s*[, ]\s*([-+]?\d+(?:\.\d+)?) matched at i
DecimalPairAt(s, i) ==
    LET e1 == ScanNumber(s, i)
        j == SkipSpaces(s, e1)
        k == IF At(s, j) = "," THEN SkipSpaces(s, j + 1)
             ELSE IF j > e1 THEN j ELSE 0
        e2 == IF k = 0 THEN 0 ELSE ScanNumber(s, k)
    IN  IF e1 = 0 \/ k = 0 \/ e2 = 0 THEN NoMatch ELSE Groups(i, e1, k, e2)

SearchDecimal(text) == Search([i \in 1..Len(text) |-> DecimalPairAt(text, i)])
_parse_decimal_pair(text) == FloatPair(text, SearchDecimal(text))

\* ([-+]?\d+(?:\.\d+)?),\s*([-+]?\d+(?:\.\d+)?) matched at i
CommaPairAt(s, i) ==
    LET e1 == ScanNumber(s, i)
        k == IF e1 # 0 /\ At(s, e1) = "," THEN SkipSpaces(s, e1 + 1) ELSE 0
        e2 == IF k = 0 THEN 0 ELSE ScanNumber(s, k)
    IN  IF e1 = 0 \/ k = 0 \/ e2 = 0 THEN NoMatch ELSE Groups(i, e1, k, e2)
\* @lat,lon
UrlAtAt(s, i) == IF At(s, i) = "@" THEN CommaPairAt(s, i + 1) ELSE NoMatch
\* [?&]q=lat,lon
UrlQAt(s, i) ==
    IF At(s, i) \in {"?", "&"} /\ At(s, i + 1) = "q" /\ At(s, i + 2) = "="
    THEN CommaPairAt(s, i + 3) ELSE NoMatch

SearchAt(text) == Search([i \in 1..Len(text) |-> UrlAtAt(text, i)])
SearchQ(text) == Search([i \in 1..Len(text) |-> UrlQAt(text, i)])

_parse_google_maps_url(text) ==
    IF SearchAt(text).ok THEN FloatPair(text, SearchAt(text))
    ELSE FloatPair(text, SearchQ(text))

RECURSIVE StripLeft(_)
StripLeft(s) == IF s # <<>> /\ Head(s) = " " THEN StripLeft(Tail(s)) ELSE s
RECURSIVE StripRight(_)
StripRight(s) ==
    IF s # <<>> /\ s[Len(s)] = " " THEN StripRight(SubText(s, 1, Len(s) - 1)) ELSE s
strip(s) == StripRight(StripLeft(s))

Hemi == {"N", "S", "E", "W", "n", "s", "e", "w"}
upper(c) == CASE c = "n" -> "N" [] c = "s" -> "S" [] c = "e" -> "E" [] c = "w" -> "W"
              [] OTHER -> c

\* re.match of (\d+(?:\.\d+)?)deg\s*(\d+(?:\.\d+)?)'\s*(\d+(?:\.\d+)?)"?\s*([NSEW])?
_dms_token(tok) ==
    LET t == strip(tok)
        e1 == ScanUnsigned(t, 1)
        i2 == IF e1 # 0 /\ At(t, e1) = "deg" THEN SkipSpaces(t, e1 + 1) ELSE 0
        e2 == IF i2 = 0 THEN 0 ELSE ScanUnsigned(t, i2)
        i3 == IF e2 # 0 /\ At(t, e2) = "'" THEN SkipSpaces(t, e2 + 1) ELSE 0
        e3 == IF i3 = 0 THEN 0 ELSE ScanUnsigned(t, i3)
        i4 == SkipSpaces(t, IF At(t, e3) = "\"" THEN e3 + 1 ELSE e3)
    IN  IF e3 = 0 THEN NoMatch
        ELSE [ok |-> TRUE, d |-> float(t, 1, e1), m |-> float(t, i2, e2),
              s |-> float(t, i3, e3),
              ref |-> IF At(t, i4) \in Hemi THEN upper(At(t, i4)) ELSE ""]

_dms_to_decimal(d, m, s, ref) ==
    LET val == FxAdd(FxAdd(d, FxDivInt(m, 60)), FxDivInt(s, 3600))
    IN  IF ref \in {"S", "W"} THEN FxNeg(val) ELSE val

\* the end of a separator \s*[;,]\s*|\s{2,} that starts at i, 0 when none does
SepEnd(s, i) ==
    LET j == SkipSpaces(s, i)
    IN  IF At(s, j) \in {";", ","} THEN SkipSpaces(s, j + 1)
        ELSE IF j - i >= 2 THEN j ELSE 0
\* re.split
RECURSIVE SplitFrom(_, _, _, _)
SplitFrom(s, i, cur, acc) ==
    IF i > Len(s) THEN Append(acc, cur)
    ELSE IF SepEnd(s, i) # 0 THEN SplitFrom(s, SepEnd(s, i), <<>>, Append(acc, cur))
    ELSE SplitFrom(s, i + 1, Append(cur, s[i]), acc)
Split(s) == SplitFrom(s, 1, <<>>, <<>>)

\* [p for p in parts if _dms_token(p)]
RECURSIVE Candidates(_)
Candidates(parts) ==
    IF parts = <<>> THEN <<>>
    ELSE IF _dms_token(Head(parts)).ok THEN <<Head(parts)>> \o Candidates(Tail(parts))
    ELSE Candidates(Tail(parts))

\* the references after "if not lat_ref and lon_ref" and "if not lon_ref and lat_ref"
LatRef(lat_ref, lon_ref) == IF lat_ref = "" /\ lon_ref # "" THEN "N" ELSE lat_ref
LonRef(lat_ref, lon_ref) == IF lon_ref = "" /\ LatRef(lat_ref, lon_ref) # "" THEN "E" ELSE lon_ref
\* ref or default
Or(ref, default) == IF ref = "" THEN default ELSE ref
\* lat, lon of the first two candidates' tokens
DmsPair(la, lo) ==
    Pair(_dms_to_decimal(la.d, la.m, la.s, Or(LatRef(la.ref, lo.ref), "N")),
         _dms_to_decimal(lo.d, lo.m, lo.s, Or(LonRef(la.ref, lo.ref), "E")))

_parse_dms(text) ==
    LET parts == Split(strip(text))
        candidates == Candidates(parts)
    IN  IF Len(candidates) >= 2
        THEN DmsPair(_dms_token(candidates[1]), _dms_token(candidates[2]))
        ELSE NoMatch

\* the rules with the decimal pair tried before the URL forms
smart_parse_decimal_first(text) ==
    IF text = <<>> \/ strip(text) = <<>> THEN NoMatch
    ELSE IF _parse_decimal_pair(text).ok THEN _parse_decimal_pair(text)
    ELSE IF _parse_google_maps_url(text).ok THEN _parse_google_maps_url(text)
    ELSE _parse_dms(text)

\* a result with ok = FALSE is the ValueError the function raises
smart_parse_coords(text) ==
    IF text = <<>> \/ strip(text) = <<>> THEN NoMatch
    ELSE LET g == _parse_google_maps_url(text)
             p == _parse_decimal_pair(text)
         IN  IF g.ok THEN g
             ELSE IF p.ok THEN p
             ELSE _parse_dms(text)

(***************************************************************************)
(* The texts pasted into the form                                          *)
(***************************************************************************)
\* ''
TxtEmpty == <<>>
\* '   '
TxtBlank == <<" ", " ", " ">>
\* 'abc'
TxtWords == <<"a", "b", "c">>
\* '50.5, 4.5'
TxtDecimal == <<"5", "0", ".", "5", ",", " ", "4", ".", "5">>
\* '50.8291246 4.3705335'
TxtDecimalSpace == <<"5", "0", ".", "8", "2", "9", "1", "2", "4", "6", " ", "4", ".", "3", "7", "0", "5", "3", "3", "5">>
\* '90, 180'
TxtMax == <<"9", "0", ",", " ", "1", "8", "0">>
\* '-90,-180'
TxtMin == <<"-", "9", "0", ",", "-", "1", "8", "0">>
\* '91, 0'
TxtLatOver == <<"9", "1", ",", " ", "0">>
\* '0, 181'
TxtLonOver == <<"0", ",", " ", "1", "8", "1">>
\* '90.00000001, 0'
TxtLatJustOver == <<"9", "0", ".", "0", "0", "0", "0", "0", "0", "0", "1", ",", " ", "0">>
\* 'm/@50.5,4.5,15z'
TxtUrlAt == <<"m", "/", "@", "5", "0", ".", "5", ",", "4", ".", "5", ",", "1", "5", "z">>
\* 'm?q=-33.5,151.25'
TxtUrlQ == <<"m", "?", "q", "=", "-", "3", "3", ".", "5", ",", "1", "5", "1", ".", "2", "5">>
\* 'm?q=1,2/@3,4'
TxtQThenAt == <<"m", "?", "q", "=", "1", ",", "2", "/", "@", "3", ",", "4">>
\* '1, 2 &q=3,4'
TxtDecThenQ == <<"1", ",", " ", "2", " ", "&", "q", "=", "3", ",", "4">>
\* '10, 20 @91,0'
TxtDecThenAtOver == <<"1", "0", ",", " ", "2", "0", " ", "@", "9", "1", ",", "0">>
\* "50°49'44.9  4°22'13.9"
TxtDmsBare == <<"5", "0", "deg", "4", "9", "'", "4", "4", ".", "9", " ", " ", "4", "deg", "2", "2", "'", "1", "3", ".", "9">>
DigitChar(n) == CHOOSE c \in Digit : DigitVal[c] = n
RECURSIVE Digits(_)
Digits(n) == IF n < 10 THEN <<DigitChar(n)>> ELSE Digits(n \div 10) \o <<DigitChar(n % 10)>>

\* a component D deg M ' S.s " H: seconds in tenths, h = "" for no letter
DmsComp(d, m, s10, h) == [d |-> d, m |-> m, s10 |-> s10, h |-> h]
DmsRender(c) ==
    Digits(c.d) \o <<"deg">> \o Digits(c.m) \o <<"'">> \o Digits(c.s10 \div 10) \o <<".">>
    \o Digits(c.s10 % 10) \o <<"\"">> \o (IF c.h = "" THEN <<>> ELSE <<c.h>>)
\* degrees + minutes/60 + seconds/3600 of a component, without its sign
DmsMagnitude(c) == FxAdd(FxInt(c.d), FxAdd(FxRatio(c.m, 60), FxRatio(c.s10, 36000)))
DmsValue(c) == IF c.h \in {"S", "W"} THEN FxNeg(DmsMagnitude(c)) ELSE DmsMagnitude(c)

DmsLatComps == {DmsComp(50, 49, 449, h) : h \in {"", "N", "S"}}
DmsLonComps == {DmsComp(4, 22, 139, h) : h \in {"", "E", "W"}}
OneSpace == <<" ">>
DmsSeps == {OneSpace, <<" ", " ">>}
DmsText(a, sep, b) == DmsRender(a) \o sep \o DmsRender(b)
DmsTexts == {DmsText(a, sep, b) : a \in DmsLatComps, b \in DmsLonComps, sep \in DmsSeps}

\* '50deg49\'44.9"N, 4deg22\'13.9"E'
TxtDmsComma == DmsText(DmsComp(50, 49, 449, "N"), <<",", " ">>, DmsComp(4, 22, 139, "E"))

Texts == {TxtEmpty, TxtBlank, TxtWords, TxtDecimal, TxtDecimalSpace, TxtMax, TxtMin,
          TxtLatOver, TxtLonOver, TxtLatJustOver, TxtUrlAt, TxtUrlQ, TxtQThenAt,
          TxtDecThenQ, TxtDecThenAtOver, TxtDmsBare, TxtDmsComma} \cup DmsTexts

(***************************************************************************)
(* Python values of the metadata: None, int, tuple, bytes, str, float; a   *)
(* rational is the tuple (numerator, denominator).  A dict is a function   *)
(* from its keys.  An exception raised is the value Raise(kind).           *)
(***************************************************************************)
PyNone == [t |-> "None"]
PyInt(v) == [t |-> "int", v |-> v]
PyTuple(items) == [t |-> "tuple", items |-> items]
PyBytes(b) == [t |-> "bytes", b |-> b]
PyStr(s) == [t |-> "str", s |-> s]
PyFloat(f) == [t |-> "float", f |-> f]
Rational(n, d) == PyTuple(<<PyInt(n), PyInt(d)>>)
Raise(kind) == [t |-> "exc", kind |-> kind]
IsExc(v) == v.t = "exc"
\* bool(x)
Truthy(x) ==
    CASE x.t = "None" -> FALSE
      [] x.t = "int" -> x.v # 0
      [] x.t = "tuple" -> x.items # <<>>
      [] x.t = "bytes" -> x.b # <<>>
      [] x.t = "str" -> x.s # <<>>
\* the empty dict {}
EmptyDict == [k \in {} |-> PyNone]
\* d.get(key) and d.get(key, default)
Get(d, key, default) == IF key \in DOMAIN d THEN d[key] ELSE default

(***************************************************************************)
(* EXIF helpers: the encoder                                               *)
(***************************************************************************)
\* deg in units of 1e-7 degrees. (abs(deg) - d) * 60 is exact in the model; the
\* float product lies just below a whole number of minutes when e < 0.
deg_to_dms_rational(deg, e) ==
    LET d == Abs(deg) \div E7
        m_float == (Abs(deg) % E7) * 60
        below == e < 0 /\ m_float > 0 /\ m_float % E7 = 0
        m == IF below THEN (m_float \div E7) - 1 ELSE m_float \div E7
        s == IF below THEN 60 * 1000000 ELSE (m_float % E7) * 6
    IN  PyTuple(<<Rational(d, 1), Rational(m, 1), Rational(s, 1000000)>>)

\* a naive datetime, and the date before and after a date
DateTime(y, mo, d, h, mi, sec) ==
    [t |-> "datetime", y |-> y, mo |-> mo, d |-> d, h |-> h, mi |-> mi, sec |-> sec]
IsLeap(y) == (y % 4 = 0 /\ y % 100 # 0) \/ y % 400 = 0
DaysIn(y, mo) ==
    IF mo = 2 THEN (IF IsLeap(y) THEN 29 ELSE 28)
    ELSE IF mo \in {4, 6, 9, 11} THEN 30 ELSE 31
DayBefore(w) ==
    IF w.d > 1 THEN [w EXCEPT !.d = w.d - 1]
    ELSE IF w.mo > 1 THEN [w EXCEPT !.mo = w.mo - 1, !.d = DaysIn(w.y, w.mo - 1)]
    ELSE [w EXCEPT !.y = w.y - 1, !.mo = 12, !.d = 31]
DayAfter(w) ==
    IF w.d < DaysIn(w.y, w.mo) THEN [w EXCEPT !.d = w.d + 1]
    ELSE IF w.mo < 12 THEN [w EXCEPT !.mo = w.mo + 1, !.d = 1]
    ELSE [w EXCEPT !.y = w.y + 1, !.mo = 1, !.d = 1]
\* when.astimezone(timezone.utc) of a naive datetime: it is read as local time
\* of the machine, whose UTC offset is tz minutes (|tz| < 1440)
astimezone_utc(when, tz) ==
    LET mins == (when.h * 60 + when.mi) - tz
        day == IF mins < 0 THEN DayBefore(when)
               ELSE IF mins >= 1440 THEN DayAfter(when) ELSE when
        mm == (mins + 1440) % 1440
    IN  [day EXCEPT !.h = mm \div 60, !.mi = mm % 60]
\* strftime("%Y:%m:%d")
strftime(w) ==
    <<DigitChar(w.y \div 1000), DigitChar((w.y \div 100) % 10), DigitChar((w.y \div 10) % 10),
      DigitChar(w.y % 10), ":", DigitChar(w.mo \div 10), DigitChar(w.mo % 10), ":",
      DigitChar(w.d \div 10), DigitChar(w.d % 10)>>

\* int(abs(alt) * 100), alt in millimetres: the float product lies just below a
\* whole number of centimetres when e < 0
AltCentimetres(alt_mm, e) ==
    LET mm == Abs(alt_mm)
    IN  IF e < 0 /\ mm > 0 /\ mm % 10 = 0 THEN (mm \div 10) - 1 ELSE mm \div 10

\* lat, lon in units of 1e-7 degrees; alt is PyNone or [t |-> "float", mm |-> millimetres];
\* when is PyNone or a DateTime; tz is the machine's UTC offset; e the float errors
build_gps_ifd(lat, lon, alt, when, tz, e) ==
    LET gps_ifd == [GPSVersionID |-> PyTuple(<<PyInt(2), PyInt(3), PyInt(0), PyInt(0)>>),
                    GPSLatitudeRef |-> PyBytes(IF lat >= 0 THEN <<"N">> ELSE <<"S">>),
                    GPSLatitude |-> deg_to_dms_rational(lat, e.lat),
                    GPSLongitudeRef |-> PyBytes(IF lon >= 0 THEN <<"E">> ELSE <<"W">>),
                    GPSLongitude |-> deg_to_dms_rational(lon, e.lon)]
        with_alt == IF alt.t = "None" THEN gps_ifd
                    ELSE [GPSAltitudeRef |-> PyInt(IF alt.mm >= 0 THEN 0 ELSE 1),
                          GPSAltitude |-> Rational(AltCentimetres(alt.mm, e.alt), 100)]
                         @@ gps_ifd
        when_utc == astimezone_utc(when, tz)
    IN  IF when.t = "None" THEN with_alt
        ELSE [GPSDateStamp |-> PyStr(strftime(when_utc)),
              GPSTimeStamp |-> PyTuple(<<Rational(when_utc.h, 1), Rational(when_utc.mi, 1),
                                         Rational(when_utc.sec, 1)>>)]
             @@ with_alt

(***************************************************************************)
(* EXIF helpers: the decoder                                               *)
(***************************************************************************)
\* x[0]/x[1] if isinstance(x, tuple) and x[1] else float(x)
rat(x) ==
    IF x.t = "tuple"
    THEN IF Len(x.items) < 2 THEN Raise("IndexError")
         ELSE IF Truthy(x.items[2])
              THEN IF x.items[1].t = "int" /\ x.items[2].t = "int"
                   THEN PyFloat(FxRatio(x.items[1].v, x.items[2].v))
                   ELSE Raise("TypeError")
              ELSE Raise("TypeError")
    ELSE IF x.t = "int" THEN PyFloat(FxInt(x.v))
    ELSE Raise("TypeError")

\* dms[i], i from 0
Subscript(dms, i) ==
    IF dms.t # "tuple" THEN Raise("TypeError")
    ELSE IF i + 1 > Len(dms.items) THEN Raise("IndexError")
    ELSE dms.items[i + 1]
RatAt(dms, i) == IF IsExc(Subscript(dms, i)) THEN Subscript(dms, i) ELSE rat(Subscript(dms, i))

\* dms_to_deg with the reference compared to the text 'S'/'W' instead of bytes
dms_to_deg_str_ref(dms, ref) ==
    IF ~Truthy(dms) THEN PyNone
    ELSE IF IsExc(RatAt(dms, 0)) THEN RatAt(dms, 0)
    ELSE IF IsExc(RatAt(dms, 1)) THEN RatAt(dms, 1)
    ELSE IF IsExc(RatAt(dms, 2)) THEN RatAt(dms, 2)
    ELSE PyFloat(IF ref \in {PyStr(<<"S">>), PyStr(<<"W">>)}
                 THEN FxNeg(FxAdd(FxAdd(RatAt(dms, 0).f, FxDivInt(RatAt(dms, 1).f, 60)),
                                  FxDivInt(RatAt(dms, 2).f, 3600)))
                 ELSE FxAdd(FxAdd(RatAt(dms, 0).f, FxDivInt(RatAt(dms, 1).f, 60)),
                            FxDivInt(RatAt(dms, 2).f, 3600)))

dms_to_deg(dms, ref) ==
    IF ~Truthy(dms) THEN PyNone
    ELSE LET d == RatAt(dms, 0)
             m == RatAt(dms, 1)
             s == RatAt(dms, 2)
             deg == FxAdd(FxAdd(d.f, FxDivInt(m.f, 60)), FxDivInt(s.f, 3600))
         IN  IF IsExc(d) THEN d
             ELSE IF IsExc(m) THEN m
             ELSE IF IsExc(s) THEN s
             ELSE PyFloat(IF ref \in {PyBytes(<<"S">>), PyBytes(<<"W">>)} THEN FxNeg(deg) ELSE deg)

\* date.decode(errors="ignore"); a piexif ASCII value is bytes of the same text
decode(date) == IF date.t = "bytes" THEN PyStr(date.b) ELSE date

\* exif_dict is a dict of groups; the result is the dict of five fields, or the
\* exception that leaves the function
parse_gps(exif_dict) ==
    LET gps == Get(exif_dict, "GPS", EmptyDict)
        lat == dms_to_deg(Get(gps, "GPSLatitude", PyNone), Get(gps, "GPSLatitudeRef", PyBytes(<<"?">>)))
        lon == dms_to_deg(Get(gps, "GPSLongitude", PyNone), Get(gps, "GPSLongitudeRef", PyBytes(<<"?">>)))
        alt0 == Get(gps, "GPSAltitude", PyNone)
        alt == IF Truthy(alt0) THEN rat(alt0) ELSE PyNone
    IN  IF DOMAIN gps = {}
        THEN [t |-> "dict", lat |-> PyNone, lon |-> PyNone, alt |-> PyNone,
              date |-> PyNone, time |-> PyNone]
        ELSE IF IsExc(lat) THEN lat
        ELSE IF IsExc(lon) THEN lon
        ELSE IF IsExc(alt) THEN alt
        ELSE [t |-> "dict", lat |-> lat, lon |-> lon, alt |-> alt,
              date |-> decode(Get(gps, "GPSDateStamp", PyNone)),
              time |-> Get(gps, "GPSTimeStamp", PyNone)]

(***************************************************************************)
(* process_file                                                            *)
(***************************************************************************)
\* An uploaded file: its name (stem, extension), whether Image.open reads it,
\* whether piexif.load reads its metadata and the dict it then returns, and
\* whether piexif.dump/insert and the JPEG export succeed on it.
UploadedFile(stem, ext, image_ok, exif_ok, exif, write_ok) ==
    [name |-> <<stem, ext>>, image_ok |-> image_ok, exif_ok |-> exif_ok, exif |-> exif,
     write_ok |-> write_ok]

load_exif_from_bytes(data) == IF data.exif_ok THEN data.exif ELSE EmptyDict

EmptyExif ==
    ("0th" :> EmptyDict) @@ ("Exif" :> EmptyDict) @@ ("GPS" :> EmptyDict) @@ ("1st" :> EmptyDict)

\* the GPS group as piexif.load returns it from the written bytes: text is bytes
StoredGps(g) == [k \in DOMAIN g |-> IF g[k].t = "str" THEN PyBytes(g[k].s) ELSE g[k]]

\* the new tags laid over the GPS group that was read, instead of replacing it
WithGpsMerged(exif_before, gps_ifd) ==
    ("GPS" :> (gps_ifd @@ Get(exif_before, "GPS", EmptyDict)))
    @@ (IF DOMAIN exif_before # {} THEN exif_before ELSE EmptyExif)

\* exif_dict = exif_before if exif_before else {...}; exif_dict["GPS"] = gps_ifd
WithGps(exif_before, gps_ifd) ==
    ("GPS" :> gps_ifd) @@ (IF DOMAIN exif_before # {} THEN exif_before ELSE EmptyExif)

\* process_file from "exif_before = ..." on: before is parse_gps(exif_before)
Geotag(uploaded_file, exif_before, before, exif_dict) ==
    IF IsExc(before) THEN before
    ELSE IF ~uploaded_file.write_ok
         THEN [t |-> "exc", kind |-> "ValueError", read |-> exif_before, handed |-> exif_dict]
    ELSE [t |-> "ok", out_name |-> <<uploaded_file.name[1], "_geo.jpg">>,
          before |-> before, after |-> parse_gps("GPS" :> StoredGps(exif_dict["GPS"])),
          read |-> exif_before, handed |-> exif_dict]

\* out_name, before, after and the dict handed to write_exif_to_image_bytes, or
\* the exception that leaves process_file (with the dict, once it was handed over)
process_file(uploaded_file, lat, lon, alt, when, tz, e) ==
    IF ~uploaded_file.image_ok THEN [t |-> "exc", kind |-> "UnidentifiedImageError"]
    ELSE Geotag(uploaded_file, load_exif_from_bytes(uploaded_file),
                parse_gps(load_exif_from_bytes(uploaded_file)),
                WithGps(load_exif_from_bytes(uploaded_file),
                        build_gps_ifd(lat, lon, alt, when, tz, e)))

(***************************************************************************)
(* The page: form state, options, uploads and the Geoetiquetar run         *)
(***************************************************************************)
VARIABLES
    paste,      \* the text input
    lat, lon,   \* st.session_state.lat / .lon, units of 1e-7 degrees
    parsed,     \* the text and the result of smart_parse_coords at the last Parse
    msg,        \* "", "success" or "error": what the last Parse showed
    lock,       \* the checkbox "Bloquear coordenadas"
    latEdit, lonEdit,   \* what the user typed into the number inputs, if anything
    alt, use_alt,       \* altitude input (millimetres) and "Escribir altitud"
    use_date, dt,       \* "Escribir fecha/hora GPS (UTC)" and the date/time inputs
    tz,         \* UTC offset of the machine, minutes
    files,      \* the uploaded files
    pc, idx,    \* position of the Geoetiquetar run
    args,       \* lat, lon, alt, when the run passes to process_file
    results, errors, visited, written,
    shown,      \* what the run rendered: per-file downloads and the ZIP button
    fix, gps, decoded   \* encoder/decoder session: input, GPS group, decoded dict

formVars == <<paste, lat, lon, lock, latEdit, lonEdit>>
parseVars == <<parsed, msg>>
optVars == <<alt, use_alt, use_date, dt>>
runVars == <<pc, idx, args, results, errors, visited, written, shown>>
codecVars == <<fix, gps, decoded>>
vars == <<formVars, parseVars, optVars, tz, files, runVars, codecVars>>

NoEdit == [set |-> FALSE, v |-> 0]
Edit(v) == [set |-> TRUE, v |-> v]
\* the value a number input returns: the typed one, else its default
InputValue(edit, default) == IF edit.set THEN edit.v ELSE default

NoParse == [text |-> <<>>, res |-> NoMatch]
NothingShown == [downloads |-> <<>>, zip |-> FALSE]
NoArgs == [lat |-> 0, lon |-> 0, alt |-> PyNone, when |-> PyNone]
Now == DateTime(2024, 3, 1, 0, 30, 5)

InitForm ==
    /\ paste = <<>> /\ lat = 508291246 /\ lon = 43705335
    /\ parsed = NoParse /\ msg = ""
    /\ lock = TRUE /\ latEdit = NoEdit /\ lonEdit = NoEdit
InitOptions == alt = 0 /\ use_alt = FALSE /\ use_date = FALSE /\ dt = Now
InitRun ==
    /\ pc = "idle" /\ idx = 0 /\ args = NoArgs /\ results = <<>> /\ errors = <<>>
    /\ visited = <<>> /\ written = <<>> /\ shown = NothingShown
NoFix == [encoded |-> FALSE, lat |-> 0, lon |-> 0]
InitCodec == fix = NoFix /\ gps = EmptyDict /\ decoded = PyNone

(* Every interaction reruns the script: what the last Parse or Geoetiquetar run
   drew is gone unless the rerun is that button's own. *)
NoRun ==
    /\ pc \in {"idle", "done"}
    /\ pc' = "idle" /\ idx' = 0 /\ args' = NoArgs /\ results' = <<>> /\ errors' = <<>>
    /\ visited' = <<>> /\ written' = <<>> /\ shown' = NothingShown
NoParseClick == parsed' = NoParse /\ msg' = ""

(* The form *)
\* the user types one of the texts T into the text input
SetPaste(T) ==
    /\ NoRun /\ NoParseClick
    /\ \E t \in T : paste' = t
    /\ UNCHANGED <<lat, lon, lock, latEdit, lonEdit, optVars, tz, files, codecVars>>

\* the range test with the longitude bound left out
InRangeNoLon(p) == FxAbsLeqInt(p.lat, 90)
\* -90 <= lat_p <= 90 and -180 <= lon_p <= 180
InRange(p) == FxAbsLeqInt(p.lat, 90) /\ FxAbsLeqInt(p.lon, 180)

\* the try block of the Parse button, p the outcome of smart_parse_coords(paste)
ParseClick(p, e) ==
    LET ok == p.ok /\ InRange(p)
    IN  /\ parsed' = [text |-> paste, res |-> p]
        /\ msg' = IF ok THEN "success" ELSE "error"
        /\ lat' = IF ok THEN round7(p.lat, e) ELSE lat
        /\ lon' = IF ok THEN round7(p.lon, e) ELSE lon
        \* a number input whose default changed is a new widget
        /\ latEdit' = IF lat' # lat THEN NoEdit ELSE latEdit
        /\ lonEdit' = IF lon' # lon THEN NoEdit ELSE lonEdit

Parse ==
    /\ NoRun
    /\ \E e \in FloatErr : ParseClick(smart_parse_coords(paste), e)
    /\ UNCHANGED <<paste, lock, optVars, tz, files, codecVars>>

ToggleLock ==
    /\ NoRun /\ NoParseClick
    /\ lock' = ~lock
    /\ UNCHANGED <<paste, lat, lon, latEdit, lonEdit, optVars, tz, files, codecVars>>

EditValues == {125000000, -2000000000}

EditLat ==
    /\ NoRun /\ NoParseClick /\ ~lock
    /\ \E v \in EditValues : latEdit' = Edit(v)
    /\ UNCHANGED <<paste, lat, lon, lock, lonEdit, optVars, tz, files, codecVars>>

EditLon ==
    /\ NoRun /\ NoParseClick /\ ~lock
    /\ \E v \in EditValues : lonEdit' = Edit(v)
    /\ UNCHANGED <<paste, lat, lon, lock, latEdit, optVars, tz, files, codecVars>>

(* The options *)
AltValues == {0, 290, -1999}
SetAltitude ==
    /\ NoRun /\ NoParseClick
    /\ \E a \in AltValues : alt' = a
    /\ UNCHANGED <<formVars, use_alt, use_date, dt, tz, files, codecVars>>

ToggleUseAlt ==
    /\ NoRun /\ NoParseClick
    /\ use_alt' = ~use_alt
    /\ UNCHANGED <<formVars, alt, use_date, dt, tz, files, codecVars>>

\* the date and time inputs exist only while the checkbox is ticked; unticking
\* and ticking again shows them with their defaults
ToggleUseDate ==
    /\ NoRun /\ NoParseClick
    /\ use_date' = ~use_date
    /\ dt' = Now
    /\ UNCHANGED <<formVars, alt, use_alt, tz, files, codecVars>>

DateValues == {Now, DateTime(2023, 12, 31, 23, 59, 59)}
SetDateTime ==
    /\ NoRun /\ NoParseClick /\ use_date
    /\ \E w \in DateValues : dt' = w
    /\ UNCHANGED <<formVars, alt, use_alt, use_date, tz, files, codecVars>>

(* The uploads *)
CameraTags == [Make |-> PyBytes(<<"c", "a", "m">>)]
ExifTags == [ISOSpeedRatings |-> PyInt(100)]
Container(gpsGroup) ==
    ("0th" :> CameraTags) @@ ("Exif" :> ExifTags) @@ ("GPS" :> gpsGroup)
    @@ ("Interop" :> EmptyDict) @@ ("1st" :> EmptyDict) @@ ("thumbnail" :> PyNone)
\* a GPS group written by another program: altitude and date/time present
PriorGps ==
    [GPSLatitudeRef |-> PyBytes(<<"S">>),
     GPSLatitude |-> PyTuple(<<Rational(33, 1), Rational(52, 1), Rational(768, 100)>>),
     GPSLongitudeRef |-> PyBytes(<<"E">>),
     GPSLongitude |-> PyTuple(<<Rational(151, 1), Rational(12, 1), Rational(3348, 100)>>),
     GPSAltitudeRef |-> PyInt(0), GPSAltitude |-> Rational(5850, 100),
     GPSDateStamp |-> PyBytes(<<"2", "0", "2", "0", ":", "0", "1", ":", "0", "2">>),
     GPSTimeStamp |-> PyTuple(<<Rational(10, 1), Rational(20, 1), Rational(30, 1)>>),
     GPSSpeed |-> Rational(7, 2)]
ZeroDenGps ==
    [GPSLatitudeRef |-> PyBytes(<<"N">>),
     GPSLatitude |-> PyTuple(<<Rational(50, 1), Rational(49, 1), Rational(449, 0)>>),
     GPSLongitudeRef |-> PyBytes(<<"E">>),
     GPSLongitude |-> PyTuple(<<Rational(4, 1), Rational(22, 1), Rational(139, 10)>>)]

FilePlain == UploadedFile("a", ".jpg", TRUE, TRUE, Container(EmptyDict), TRUE)
FileTagged == UploadedFile("b", ".jpeg", TRUE, TRUE, Container(PriorGps), TRUE)
FileWebp == UploadedFile("c", ".webp", TRUE, FALSE, EmptyDict, TRUE)
FileBroken == UploadedFile("d", ".jpg", FALSE, FALSE, EmptyDict, TRUE)
FileZeroDen == UploadedFile("e", ".tif", TRUE, TRUE, Container(ZeroDenGps), TRUE)
FileUnwritable == UploadedFile("f", ".tiff", TRUE, TRUE, Container(EmptyDict), FALSE)
FilePool == {FilePlain, FileTagged, FileWebp, FileBroken, FileZeroDen, FileUnwritable}

MaxFiles == 2

\* one more file dropped on the uploader
Upload ==
    /\ NoRun /\ NoParseClick
    /\ Len(files) < MaxFiles
    /\ \E f \in FilePool : files' = Append(files, f)
    /\ UNCHANGED <<formVars, optVars, tz, codecVars>>

(* The Geoetiquetar button: "if files and st.button(...)" *)
Click ==
    /\ pc \in {"idle", "done"} /\ files # <<>>
    /\ NoParseClick
    /\ pc' = "loop" /\ idx' = 1
    /\ args' = [lat |-> InputValue(latEdit, lat), lon |-> InputValue(lonEdit, lon),
                alt |-> IF use_alt THEN [t |-> "float", mm |-> alt] ELSE PyNone,
                when |-> IF use_date THEN dt ELSE PyNone]
    /\ results' = <<>> /\ errors' = <<>> /\ visited' = <<>> /\ written' = <<>>
    /\ shown' = NothingShown
    /\ UNCHANGED <<formVars, optVars, tz, files, codecVars>>

FloatErrs == [lat : FloatErr, lon : FloatErr, alt : FloatErr]

\* the loop leaving at the first file that fails (try around the whole loop)
NextFileStopOnError(i, n, r) == IF IsExc(r) THEN n + 1 ELSE i + 1

\* the index the for loop goes to after file i of n, whose process_file gave r
NextFile(i, n, r) == i + 1

\* the try/except around process_file, r its outcome
TryFile(r) ==
    /\ results' = IF IsExc(r) THEN results
                  ELSE Append(results, [out_name |-> r.out_name, before |-> r.before,
                                        after |-> r.after])
    /\ errors' = IF IsExc(r) THEN Append(errors, files[idx].name) ELSE errors
    /\ written' = IF "handed" \in DOMAIN r
                  THEN Append(written, [read |-> r.read, handed |-> r.handed])
                  ELSE written
    /\ idx' = NextFile(idx, Len(files), r)

\* one iteration of "for uf in files: try ... except Exception"
ProcessNext ==
    /\ pc = "loop" /\ idx <= Len(files)
    /\ \E e \in FloatErrs :
        TryFile(process_file(files[idx], args.lat, args.lon, args.alt, args.when, tz, e))
    /\ visited' = Append(visited, idx)
    /\ UNCHANGED <<formVars, parseVars, optVars, tz, files, pc, args, shown, codecVars>>

\* whether the ZIP button is drawn for a results list
OffersZip(res) == Len(res) > 1

\* "if results:" -- the per-file downloads and the ZIP button
Render ==
    /\ pc = "loop" /\ idx > Len(files)
    /\ pc' = "done"
    /\ shown' = [downloads |-> [i \in 1..Len(results) |-> results[i].out_name],
                 zip |-> results # <<>> /\ OffersZip(results)]
    /\ UNCHANGED <<formVars, parseVars, optVars, tz, files, idx, args, results, errors,
                   visited, written, codecVars>>

(* Encoder/decoder session *)
LatSamples == {0, 1, -1, 11500000, -11500000, 508291246, -338688000, 899999999,
               900000000, -900000000}
LonSamples == {0, -1, 43705335, 1512093000, -1512093000, 1799999999, 1800000000,
               -1800000000, 20500000, -5000000}
\* GPS groups as found in files of other programs
ForeignGroups ==
    {PriorGps, ZeroDenGps,
     [GPSLatitude |-> PyTuple(<<Rational(50, 1), Rational(49, 1)>>)],
     [GPSLatitude |-> Rational(50, 1), GPSLatitudeRef |-> PyBytes(<<"N">>)],
     [GPSAltitude |-> Rational(5, 0), GPSLatitudeRef |-> PyBytes(<<"N">>)],
     [GPSAltitude |-> Rational(585, 10)],
     [GPSLongitude |-> PyTuple(<<Rational(4, 1), Rational(30, 1), Rational(0, 1)>>)]}

Encode ==
    /\ \E la \in LatSamples, lo \in LonSamples, e \in FloatErrs :
        /\ fix' = [encoded |-> TRUE, lat |-> la, lon |-> lo]
        /\ gps' = StoredGps(build_gps_ifd(la, lo, PyNone, PyNone, tz, e))
    /\ decoded' = PyNone
    /\ UNCHANGED <<formVars, parseVars, optVars, tz, files, runVars>>

ReadForeign ==
    /\ \E g \in ForeignGroups : gps' = g
    /\ fix' = NoFix
    /\ decoded' = PyNone
    /\ UNCHANGED <<formVars, parseVars, optVars, tz, files, runVars>>

Decode ==
    /\ decoded = PyNone /\ DOMAIN gps # {}
    /\ decoded' = parse_gps("GPS" :> gps)
    /\ UNCHANGED <<fix, gps, formVars, parseVars, optVars, tz, files, runVars>>

(***************************************************************************)
(* Specifications                                                          *)
(***************************************************************************)
InitPage == InitForm /\ InitOptions /\ InitRun /\ InitCodec

\* the text input and the Parse button
Init == InitPage /\ tz = 0 /\ files = <<>>
Next == SetPaste(Texts) \/ Parse
Spec == Init /\ [][Next]_vars

\* the whole form, with one image uploaded and the options left at their defaults
FormTexts == {TxtDecimal, TxtMin, TxtLatOver, TxtEmpty}
InitFormRun == InitPage /\ tz = 0 /\ files = <<FilePlain>>
NextForm ==
    \/ SetPaste(FormTexts) \/ Parse \/ ToggleLock \/ EditLat \/ EditLon
    \/ Click \/ ProcessNext \/ Render
SpecForm == InitFormRun /\ [][NextForm]_vars

\* uploads and the run, the coordinates left at their defaults
InitBatch == InitPage /\ tz = 0 /\ files = <<>>
NextBatch == Upload \/ ToggleUseAlt \/ ToggleUseDate \/ Click \/ ProcessNext \/ Render
SpecBatch == InitBatch /\ [][NextBatch]_vars

\* the options and the run on one image that carries a GPS group
TimeZones == {0, 60, -300}
InitOptionsRun == InitPage /\ tz \in TimeZones /\ files = <<FileTagged>>
NextOptions ==
    \/ SetAltitude \/ ToggleUseAlt \/ ToggleUseDate \/ SetDateTime
    \/ Click \/ ProcessNext \/ Render
SpecOptions == InitOptionsRun /\ [][NextOptions]_vars

\* build_gps_ifd and parse_gps on their own
InitCodecOnly == InitPage /\ tz = 0 /\ files = <<>>
NextCodec == Encode \/ ReadForeign \/ Decode
SpecCodec == InitCodecOnly /\ [][NextCodec]_vars

(***************************************************************************)
(* Properties                                                              *)
(***************************************************************************)
\* |x| > n for an integer n >= 0
Beyond(x, n) == x.q > n * E7 \/ (x.q = n * E7 /\ x.r > 0)
\* a Parse click has just been handled and its text gave a pair
ParsedPair == msg # "" /\ parsed.res.ok

\* C1: a pair parsed by any rule with latitude outside [-90,90] or longitude
\* outside [-180,180] is rejected with an error and leaves the stored values
\* as they were; the boundary pairs (90,180) and (-90,-180) are accepted and
\* stored; the stored latitude and longitude are always in range.
C1_RangeRejection ==
    /\ [](/\ Abs(lat) <= 90 * E7 /\ Abs(lon) <= 180 * E7
          /\ (ParsedPair /\ (Beyond(parsed.res.lat, 90) \/ Beyond(parsed.res.lon, 180)))
                => msg = "error"
          /\ (msg # "" /\ parsed.text = TxtMax)
                => (msg = "success" /\ lat = 90 * E7 /\ lon = 180 * E7)
          /\ (msg # "" /\ parsed.text = TxtMin)
                => (msg = "success" /\ lat = -(90 * E7) /\ lon = -(180 * E7)))
    /\ [][msg' = "error" => (lat' = lat /\ lon' = lon)]_vars
\* '91, 0' was just rejected while the boundary pair (90,180) is the stored one
C1_RejectedAfterBoundary ==
    /\ parsed.text = TxtLatOver /\ msg = "error"
    /\ lat = 90 * E7 /\ lon = 180 * E7

\* C2: the latitude and longitude a Geoetiquetar run hands to build_gps_ifd
\* are in [-90,90] and [-180,180] in every reachable state of the form.
C2_HandedInRange ==
    pc # "idle" => (Abs(args.lat) <= 90 * E7 /\ Abs(args.lon) <= 180 * E7)

\* the decoded float x is within 1e-5 degrees of v (units of 1e-7) and has its sign
Close(x, v) ==
    /\ Abs(x.sg * x.q - v) <= 101
    /\ Abs((x.sg * x.q - v) * FxSub + x.sg * x.r) <= 100 * FxSub
    /\ (v > 0 => (x.sg = 1 /\ ~FxIsZero(x)))
    /\ (v < 0 => (x.sg = -1 /\ ~FxIsZero(x)))
    /\ (v = 0 => FxIsZero(x))

\* C3: for latitude in [-90,90] and longitude in [-180,180], multiples of 1e-7
\* degrees, parse_gps of the group built by build_gps_ifd gives a latitude and
\* longitude of the same sign as the original and within 1e-5 degrees of it.
C3_RoundTrip ==
    (fix.encoded /\ decoded # PyNone) =>
        /\ decoded.t = "dict"
        /\ decoded.lat.t = "float" /\ Close(decoded.lat.f, fix.lat)
        /\ decoded.lon.t = "float" /\ Close(decoded.lon.f, fix.lon)
\* -1.15 degrees was encoded with the minutes one short and 60 seconds, and decoded
C3_NegativeWobbleDecoded ==
    /\ fix.encoded /\ fix.lat = -11500000 /\ fix.lon = -1512093000
    /\ gps.GPSLatitude.items[2] = Rational(8, 1)
    /\ decoded # PyNone /\ decoded.t = "dict"

\* C4: parse_gps never raises, whatever the GPS group: zero denominators and
\* DMS tuples of fewer than three entries included.
C4_DecodeNeverRaises == decoded.t # "exc"

\* C5: the container process_file hands to the writer has as its GPS group
\* exactly the output of build_gps_ifd for the request, so no tag of a prior
\* GPS group survives, and every other group is the one that was read.
C5_GpsReplacedWholesale ==
    \A i \in DOMAIN written :
        /\ \E e \in FloatErrs :
            written[i].handed["GPS"] =
                build_gps_ifd(args.lat, args.lon, args.alt, args.when, tz, e)
        /\ "GPSSpeed" \notin DOMAIN written[i].handed["GPS"]
        /\ args.alt = PyNone =>
            DOMAIN written[i].handed["GPS"] \cap {"GPSAltitude", "GPSAltitudeRef"} = {}
        /\ args.when = PyNone =>
            DOMAIN written[i].handed["GPS"] \cap {"GPSDateStamp", "GPSTimeStamp"} = {}
        /\ DOMAIN written[i].read \subseteq DOMAIN written[i].handed
        /\ \A g \in DOMAIN written[i].handed \ {"GPS"} :
            written[i].handed[g] = Get(written[i].read, g, EmptyDict)
\* a file with a prior altitude and date was written by a request without them
C5_PriorTagsDropped ==
    \E i \in DOMAIN written :
        /\ args.alt = PyNone /\ args.when = PyNone
        /\ "GPSAltitude" \in DOMAIN Get(written[i].read, "GPS", EmptyDict)
        /\ "GPSDateStamp" \in DOMAIN Get(written[i].read, "GPS", EmptyDict)
        /\ written[i].handed["0th"] = CameraTags
        /\ pc = "done"

\* C6: a DMS input of two components separated by whitespace, a single space
\* included, parses to the first component as latitude and the second as
\* longitude, each degrees + minutes/60 + seconds/3600, negated for S/W and
\* positive without a letter.
C6_DmsWhitespacePair ==
    \A a \in DmsLatComps, b \in DmsLonComps, sep \in DmsSeps :
        (msg # "" /\ parsed.text = DmsText(a, sep, b)) =>
            /\ parsed.res.ok
            /\ parsed.res.lat = DmsValue(a)
            /\ parsed.res.lon = DmsValue(b)

\* C7: smart_parse_coords returns the pair of the first rule that matches in
\* the order URL '@lat,lon', URL 'q=lat,lon', decimal pair, DMS pair; a later
\* rule is not consulted once an earlier one matched, even when the earlier
\* pair is out of range; a text containing '@50.5,4.5,15z' gives (50.5, 4.5).
C7_RulePriority ==
    msg # "" =>
        /\ SearchAt(parsed.text).ok =>
            parsed.res = FloatPair(parsed.text, SearchAt(parsed.text))
        /\ (~SearchAt(parsed.text).ok /\ SearchQ(parsed.text).ok) =>
            parsed.res = FloatPair(parsed.text, SearchQ(parsed.text))
        /\ (/\ ~SearchAt(parsed.text).ok /\ ~SearchQ(parsed.text).ok
            /\ SearchDecimal(parsed.text).ok) =>
            parsed.res = FloatPair(parsed.text, SearchDecimal(parsed.text))
        /\ parsed.text = TxtUrlAt =>
            (parsed.res = Pair(FxOfE7(505000000), FxOfE7(45000000)) /\ msg = "success"
             /\ lat = 505000000 /\ lon = 45000000)
        /\ parsed.text = TxtQThenAt => parsed.res = Pair(FxInt(3), FxInt(4))
        /\ parsed.text = TxtDecThenQ => parsed.res = Pair(FxInt(3), FxInt(4))
        /\ parsed.text = TxtDecThenAtOver =>
            (parsed.res = Pair(FxInt(91), FxInt(0)) /\ msg = "error")
\* '10, 20 @91,0' was parsed: the '@' pair won and the Parse failed
C7_EarlierRuleOutOfRange ==
    /\ parsed.text = TxtDecThenAtOver /\ msg = "error"
    /\ parsed.res.ok /\ parsed.res.lat = FxInt(91)

\* C8: with an altitude, the reference written is 0 for alt >= 0 and 1 for
\* alt < 0, and the numerator is |alt| in centimetres rounded to the nearest.
C8_AltitudeRounded ==
    \A i \in DOMAIN written :
        args.alt.t = "float" =>
            /\ written[i].handed["GPS"].GPSAltitudeRef
                   = PyInt(IF args.alt.mm >= 0 THEN 0 ELSE 1)
            /\ written[i].handed["GPS"].GPSAltitude
                   = Rational((Abs(args.alt.mm) + 5) \div 10, 100)

\* C9: with a timestamp, the date and time written are those the user
\* entered, unshifted, whatever the time zone of the machine.
C9_TimestampUnshifted ==
    \A i \in DOMAIN written :
        args.when.t = "datetime" =>
            /\ written[i].handed["GPS"].GPSDateStamp = PyStr(strftime(args.when))
            /\ written[i].handed["GPS"].GPSTimeStamp
                   = PyTuple(<<Rational(args.when.h, 1), Rational(args.when.mi, 1),
                               Rational(args.when.sec, 1)>>)

\* a file the run can geotag: the image opens, its GPS group decodes, it writes
Processable(f) ==
    /\ f.image_ok
    /\ ~IsExc(parse_gps(load_exif_from_bytes(f)))
    /\ f.write_ok
\* the output names of the processable files of fs, and the names of the others
RECURSIVE OutNames(_)
OutNames(fs) ==
    IF fs = <<>> THEN <<>>
    ELSE (IF Processable(Head(fs)) THEN <<<<Head(fs).name[1], "_geo.jpg">>>> ELSE <<>>)
         \o OutNames(Tail(fs))
RECURSIVE FailedNames(_)
FailedNames(fs) ==
    IF fs = <<>> THEN <<>>
    ELSE (IF Processable(Head(fs)) THEN <<>> ELSE <<Head(fs).name>>)
         \o FailedNames(Tail(fs))

\* C10: a Geoetiquetar run processes every file once, in upload order; a file
\* that fails is reported alone and the rest still run; at the end the results
\* are the files that succeeded, in upload order, and the ZIP download is
\* offered exactly when more than one succeeded.
C10_BatchRun ==
    /\ pc \in {"loop", "done"} => visited = [i \in 1..(idx - 1) |-> i]
    /\ pc = "done" =>
        /\ visited = [i \in 1..Len(files) |-> i]
        /\ [i \in 1..Len(results) |-> results[i].out_name] = OutNames(files)
        /\ errors = FailedNames(files)
        /\ shown.downloads = OutNames(files)
        /\ shown.zip <=> Len(OutNames(files)) > 1
\* the first file failed, the second was still processed and is the only result
C10_FailureThenSuccess ==
    /\ pc = "done" /\ Len(files) = 2
    /\ errors = <<files[1].name>>
    /\ Len(results) = 1 /\ results[1].out_name = <<files[2].name[1], "_geo.jpg">>
    /\ ~shown.zip
=============================================================================
